---- MODULE Spec2Model ----
(***************************************************************************)
(* Model of package errors (errors.go): error values with a message, a     *)
(* captured stack and an optional inner error, built by New, Errorf, Wrap  *)
(* and Wrapf, walked by Unwrap and rendered through fmt.Formatter.         *)
(*                                                                         *)
(* A string is a sequence of characters (one-character TLA+ strings; a     *)
(* resolved function name, file path or line number is one token).  An     *)
(* error value is a cell of the heap; its identity is its index, and the   *)
(* nil error is index 0.                                                   *)
(***************************************************************************)
EXTENDS Integers, Sequences, FiniteSets, TLC

VARIABLES heap, hist, last
vars == <<heap, hist, last>>

(* ------------------------------ bounds -------------------------------- *)
\* Number of error values allocated in one behaviour.
MaxNodes == 3

(* ------------------------------ inputs -------------------------------- *)
Nil == 0

\* Messages handed to New and to the error types of the tests.
Messages == { <<"X">> }
\* The calls of Wrap in the client program: the call stack at the call
\* (innermost frame first) and the variadic messages it passes (zero, one
\* and two fragments).
WrapCalls ==
    { [site |-> <<1, 9>>,    messages |-> << <<"a">> >>],
      [site |-> <<2, 1, 9>>, messages |-> << <<"a">>, <<"b">> >>],
      [site |-> <<5, 1, 9>>, messages |-> << >>] }
\* Format strings and argument lists handed to Errorf and Wrapf.
Formats == { <<"f", "%s">> }
ArgLists == { <<<<"1">>>> }
\* Call stacks at the calls of Wrapf, and at those of New and Errorf.
WrapfSites == { <<6, 9>> }
RootSites == { <<3, 4, 9>> }
Verbs == { "s", "v", "+v", "q" }

(* ------------------------- string primitives -------------------------- *)
\* strings.Join(elems, sep)
RECURSIVE Join(_, _)

\* Mutant: the separator also follows the last element.
Join_trailingSep(elems, sep) ==
    IF elems = <<>> THEN <<>>
    ELSE elems[1] \o sep \o Join(Tail(elems), sep)

Join(elems, sep) ==
    IF elems = <<>> THEN <<>>
    ELSE IF Len(elems) = 1 THEN elems[1]
    ELSE elems[1] \o sep \o Join(Tail(elems), sep)

\* fmt.Sprintf(format, args...): each "%s" consumes the next argument; a
\* verb without an argument prints %!s(MISSING), arguments without a verb
\* are reported in a trailing %!(EXTRA ...).
RECURSIVE Sprintf(_, _)
Sprintf(format, args) ==
    IF format = <<>>
    THEN IF args = <<>> THEN <<>> ELSE <<"%!(EXTRA)">>
    ELSE IF Head(format) = "%s"
         THEN IF args = <<>>
              THEN <<"%!s(MISSING)">> \o Sprintf(Tail(format), args)
              ELSE Head(args) \o Sprintf(Tail(format), Tail(args))
         ELSE <<Head(format)>> \o Sprintf(Tail(format), args)

\* fmt's %q of a string (strconv.Quote).
RECURSIVE QuoteBody(_)
QuoteBody(s) ==
    IF s = <<>> THEN <<>>
    ELSE (CASE Head(s) = "\n" -> <<"\\", "n">>
            [] Head(s) = "\t" -> <<"\\", "t">>
            [] Head(s) = "\"" -> <<"\\", "\"">>
            [] Head(s) = "\\" -> <<"\\", "\\">>
            [] OTHER -> <<Head(s)>>) \o QuoteBody(Tail(s))
Quote(s) == <<"\"">> \o QuoteBody(s) \o <<"\"">>

(* --------------------------- stack capture ---------------------------- *)
\* callers(): the full stack of the caller of the entry point.
callers(site) == site
\* topCaller(): only the frame of the immediate caller of the entry point.
topCaller(site) == <<site[1]>>

\* Frame %+v: function name, newline, tab, file path, colon, line.
FrameFormat(pc) ==
    << "fn" \o ToString(pc), "\n", "\t", "/src/file.go", ":", ToString(pc) >>

\* (*stack).Format with %+v: every frame, each preceded by a newline.
RECURSIVE StackFormat(_)
StackFormat(st) ==
    IF st = <<>> THEN <<>>
    ELSE <<"\n">> \o FrameFormat(Head(st)) \o StackFormat(Tail(st))

(* ---------------------------- error values ---------------------------- *)
Node(kind, msg, stack, err) ==
    [kind |-> kind, msg |-> msg, stack |-> stack, err |-> err]

\* _, ok := err.(fmt.Formatter)
IsFormatter(h, id) ==
    h[id].kind \in {"fundamental", "wrappedError", "myFormatterErr"}

\* Mutant: a wrappedError unwraps to the inner error of its inner error.
Unwrap_skipsOne(h, id) ==
    IF h[id].kind = "wrappedError"
    THEN IF h[h[id].err].kind \in {"wrappedError", "wrapError"}
         THEN h[h[id].err].err ELSE Nil
    ELSE IF h[id].kind = "wrapError" THEN h[id].err ELSE Nil

\* errors.Unwrap(err): the result of err's Unwrap method, nil without one.
Unwrap(h, id) ==
    IF h[id].kind \in {"wrappedError", "wrapError"} THEN h[id].err ELSE Nil

\* Error() of every error type.
RECURSIVE Error(_, _)
Error(h, id) ==
    CASE h[id].kind = "fundamental"    -> h[id].msg
      [] h[id].kind = "wrappedError"   ->
            h[id].msg \o <<":", " ">> \o Error(h, h[id].err)
      [] h[id].kind = "myErr"          -> <<"m", "y", "E", "r", "r">>
      [] h[id].kind = "myFormatterErr" -> h[id].msg
      [] h[id].kind = "wrapError"      ->
            h[id].msg \o <<":", " ">> \o Error(h, h[id].err)

(* ------------------------------ rendering ----------------------------- *)
\* One write to the fmt.State: who wrote it, which part it is, its text.
Seg(owner, part, text) == [owner |-> owner, part |-> part, text |-> text]

RECURSIVE Format(_, _, _)
RECURSIVE Fprintf(_, _, _)

fundamentalFormat(h, id, verb) ==
    CASE verb = "+v" -> << Seg(id, "msg", h[id].msg),
                           Seg(id, "stack", StackFormat(h[id].stack)) >>
      [] verb \in {"v", "s"} -> << Seg(id, "msg", h[id].msg) >>
      [] verb = "q" -> << Seg(id, "quoted", Quote(h[id].msg)) >>

\* Mutant: the short form writes the wrapper's message only.
wrappedErrorFormat_msgOnly(h, id, verb) ==
    IF verb = "+v"
    THEN LET w == h[id]
             isRoot == Unwrap(h, w.err) = Nil
             isFormatter == IsFormatter(h, w.err)
         IN  IF isRoot /\ ~isFormatter
             THEN << Seg(id, "msg", w.msg), Seg(id, "nl", <<"\n">>) >>
                  \o Fprintf(h, w.err, "+v")
                  \o << Seg(id, "stack", StackFormat(w.stack)),
                        Seg(id, "nl", <<"\n">>) >>
             ELSE << Seg(id, "msg", w.msg),
                     Seg(id, "stack", StackFormat(w.stack)),
                     Seg(id, "nl", <<"\n">>) >>
                  \o Fprintf(h, w.err, "+v")
                  \o << Seg(id, "nl", <<"\n">>) >>
    ELSE << Seg(id, "error", h[id].msg) >>

\* Mutant: the inner error is rendered before the wrapper's message.
wrappedErrorFormat_innerFirst(h, id, verb) ==
    IF verb = "+v"
    THEN LET w == h[id]
             isRoot == Unwrap(h, w.err) = Nil
             isFormatter == IsFormatter(h, w.err)
         IN  IF isRoot /\ ~isFormatter
             THEN << Seg(id, "msg", w.msg), Seg(id, "nl", <<"\n">>) >>
                  \o Fprintf(h, w.err, "+v")
                  \o << Seg(id, "stack", StackFormat(w.stack)),
                        Seg(id, "nl", <<"\n">>) >>
             ELSE Fprintf(h, w.err, "+v")
                  \o << Seg(id, "nl", <<"\n">>),
                        Seg(id, "msg", w.msg),
                        Seg(id, "stack", StackFormat(w.stack)),
                        Seg(id, "nl", <<"\n">>) >>
    ELSE << Seg(id, "error", Error(h, id)) >>

\* Mutant: the newline between the wrapper's stack and the inner error is
\* missing.
wrappedErrorFormat_noNewline(h, id, verb) ==
    IF verb = "+v"
    THEN LET w == h[id]
             isRoot == Unwrap(h, w.err) = Nil
             isFormatter == IsFormatter(h, w.err)
         IN  IF isRoot /\ ~isFormatter
             THEN << Seg(id, "msg", w.msg), Seg(id, "nl", <<"\n">>) >>
                  \o Fprintf(h, w.err, "+v")
                  \o << Seg(id, "stack", StackFormat(w.stack)),
                        Seg(id, "nl", <<"\n">>) >>
             ELSE << Seg(id, "msg", w.msg),
                     Seg(id, "stack", StackFormat(w.stack)) >>
                  \o Fprintf(h, w.err, "+v")
                  \o << Seg(id, "nl", <<"\n">>) >>
    ELSE << Seg(id, "error", Error(h, id)) >>

\* Mutant: the branch is chosen on isFormatter alone.
wrappedErrorFormat_noRootCheck(h, id, verb) ==
    IF verb = "+v"
    THEN LET w == h[id]
             isFormatter == IsFormatter(h, w.err)
         IN  IF ~isFormatter
             THEN << Seg(id, "msg", w.msg), Seg(id, "nl", <<"\n">>) >>
                  \o Fprintf(h, w.err, "+v")
                  \o << Seg(id, "stack", StackFormat(w.stack)),
                        Seg(id, "nl", <<"\n">>) >>
             ELSE << Seg(id, "msg", w.msg),
                     Seg(id, "stack", StackFormat(w.stack)),
                     Seg(id, "nl", <<"\n">>) >>
                  \o Fprintf(h, w.err, "+v")
                  \o << Seg(id, "nl", <<"\n">>) >>
    ELSE << Seg(id, "error", Error(h, id)) >>

wrappedErrorFormat(h, id, verb) ==
    IF verb = "+v"
    THEN LET w == h[id]
             isRoot == Unwrap(h, w.err) = Nil
             isFormatter == IsFormatter(h, w.err)
         IN  IF isRoot /\ ~isFormatter
             THEN << Seg(id, "msg", w.msg), Seg(id, "nl", <<"\n">>) >>
                  \o Fprintf(h, w.err, "+v")
                  \o << Seg(id, "stack", StackFormat(w.stack)),
                        Seg(id, "nl", <<"\n">>) >>
             ELSE << Seg(id, "msg", w.msg),
                     Seg(id, "stack", StackFormat(w.stack)),
                     Seg(id, "nl", <<"\n">>) >>
                  \o Fprintf(h, w.err, "+v")
                  \o << Seg(id, "nl", <<"\n">>) >>
    ELSE << Seg(id, "error", Error(h, id)) >>

myFormatterErrFormat(h, id, verb) ==
    CASE verb = "+v" -> << Seg(id, "error", <<"+", "v", " ">> \o Error(h, id)) >>
      [] verb \in {"v", "s"} -> << Seg(id, "error", Error(h, id)) >>
      [] verb = "q" -> << Seg(id, "quoted", Quote(Error(h, id))) >>

Format(h, id, verb) ==
    CASE h[id].kind = "fundamental"    -> fundamentalFormat(h, id, verb)
      [] h[id].kind = "wrappedError"   -> wrappedErrorFormat(h, id, verb)
      [] h[id].kind = "myFormatterErr" -> myFormatterErrFormat(h, id, verb)

\* fmt's handling of an operand: a Formatter formats itself, any other
\* error is printed through Error().
Fprintf(h, id, verb) ==
    IF IsFormatter(h, id) THEN Format(h, id, verb)
    ELSE IF verb = "q" THEN << Seg(id, "quoted", Quote(Error(h, id))) >>
    ELSE << Seg(id, "error", Error(h, id)) >>

RECURSIVE Text(_)
Text(segs) == IF segs = <<>> THEN <<>> ELSE Head(segs).text \o Text(Tail(segs))

(* ------------------------------- state --------------------------------- *)
\* hist[id]: the call that produced heap[id]; last: the latest call.
\* A Render records the text written for each verb (out) and the writes of
\* the %+v rendering (segs); one that directly follows a Render of the same
\* error sets again and keeps the output of that earlier one in prev.
Call(op, err, messages, site, id, ret, out) ==
    [op |-> op, err |-> err, messages |-> messages, site |-> site,
     id |-> id, ret |-> ret, out |-> out, segs |-> <<>>,
     again |-> FALSE, prev |-> out]

Init ==
    /\ heap = <<>>
    /\ hist = <<>>
    /\ last = Call("init", Nil, <<>>, <<>>, Nil, Nil, <<>>)

Alloc(node, call) ==
    /\ Len(heap) < MaxNodes
    /\ heap' = Append(heap, node)
    /\ hist' = Append(hist, call)
    /\ last' = call

Ids == 1..Len(heap)

New(message, site) ==
    Alloc(Node("fundamental", message, callers(site), Nil),
          Call("New", Nil, <<message>>, site, Nil, Len(heap) + 1, <<>>))

Errorf(format, args, site) ==
    Alloc(Node("fundamental", Sprintf(format, args), callers(site), Nil),
          Call("Errorf", Nil, <<format>> \o args, site, Nil,
               Len(heap) + 1, <<>>))

\* Mutant: the wrapper holds the inner error of err when err has one.
WrapNode_deeper(err, message, site) ==
    LET inner == IF Unwrap(heap, err) # Nil THEN Unwrap(heap, err) ELSE err
    IN  IF IsFormatter(heap, err)
        THEN Node("wrappedError", message, topCaller(site), inner)
        ELSE Node("wrappedError", message, callers(site), inner)

\* Mutant: the full stack is captured whatever the inner error is.
WrapNode_alwaysFull(err, message, site) ==
    Node("wrappedError", message, callers(site), err)

WrapNode(err, message, site) ==
    IF IsFormatter(heap, err)
    THEN Node("wrappedError", message, topCaller(site), err)
    ELSE Node("wrappedError", message, callers(site), err)

\* Mutant: a nil err is turned into a new error made of the messages.
Wrap_nilIsWrapped(err, messages, site) ==
    IF err = Nil
    THEN Alloc(Node("fundamental", Join(messages, <<"\n">>), callers(site), Nil),
               Call("Wrap", Nil, messages, site, Nil, Len(heap) + 1, <<>>))
    ELSE Alloc(WrapNode(err, Join(messages, <<"\n">>), site),
               Call("Wrap", err, messages, site, Nil, Len(heap) + 1, <<>>))

\* Mutant: the capture is also stored into the inner error.
Wrap_sharesStack(err, messages, site) ==
    IF err = Nil
    THEN /\ last' = Call("Wrap", Nil, messages, site, Nil, Nil, <<>>)
         /\ UNCHANGED <<heap, hist>>
    ELSE /\ Len(heap) < MaxNodes
         /\ heap' = Append([heap EXCEPT ![err].stack = topCaller(site)],
                           WrapNode(err, Join(messages, <<"\n">>), site))
         /\ hist' = Append(hist, Call("Wrap", err, messages, site, Nil,
                                      Len(heap) + 1, <<>>))
         /\ last' = Call("Wrap", err, messages, site, Nil, Len(heap) + 1, <<>>)

Wrap(err, messages, site) ==
    IF err = Nil
    THEN /\ last' = Call("Wrap", Nil, messages, site, Nil, Nil, <<>>)
         /\ UNCHANGED <<heap, hist>>
    ELSE Alloc(WrapNode(err, Join(messages, <<"\n">>), site),
               Call("Wrap", err, messages, site, Nil, Len(heap) + 1, <<>>))

Wrapf(err, format, args, site) ==
    IF err = Nil
    THEN /\ last' = Call("Wrapf", Nil, <<format>> \o args, site, Nil,
                         Nil, <<>>)
         /\ UNCHANGED <<heap, hist>>
    ELSE Alloc(WrapNode(err, Sprintf(format, args), site),
               Call("Wrapf", err, <<format>> \o args, site, Nil,
                    Len(heap) + 1, <<>>))

\* &myErr{msg}
NewMyErr(message) ==
    Alloc(Node("myErr", message, <<>>, Nil),
          Call("myErr", Nil, <<message>>, <<>>, Nil, Len(heap) + 1, <<>>))

\* &myFormatterErr{msg}
NewMyFormatterErr(message) ==
    Alloc(Node("myFormatterErr", message, <<>>, Nil),
          Call("myFormatterErr", Nil, <<message>>, <<>>, Nil,
               Len(heap) + 1, <<>>))

\* An error of another package with an Unwrap method and no Format method
\* (fmt.Errorf("message: %w", err)).
NewWrapError(err, message) ==
    Alloc(Node("wrapError", message, <<>>, err),
          Call("wrapError", err, <<message>>, <<>>, Nil,
               Len(heap) + 1, <<>>))

\* fmt.Printf("%s|%v|%+v|%q", err, err, err, err): out is the text written
\* for each verb.
Render(id) ==
    /\ last' = [Call("Render", Nil, <<>>, <<>>, id, Nil,
                     [v \in Verbs |-> Text(Fprintf(heap, id, v))])
                   EXCEPT !.segs = Fprintf(heap, id, "+v"),
                          !.again = (last.op = "Render" /\ last.id = id),
                          !.prev = IF last.op = "Render" /\ last.id = id
                                   THEN last.out ELSE @]
    /\ UNCHANGED <<heap, hist>>

\* err.Unwrap() / errors.Unwrap(err)
UnwrapCall(id) ==
    /\ last' = Call("Unwrap", Nil, <<>>, <<>>, id, Unwrap(heap, id), <<>>)
    /\ UNCHANGED <<heap, hist>>

Next ==
    \/ \E m \in Messages, s \in RootSites : New(m, s)
    \/ \E f \in Formats, a \in ArgLists, s \in RootSites : Errorf(f, a, s)
    \/ \E e \in {Nil} \cup Ids, c \in WrapCalls : Wrap(e, c.messages, c.site)
    \/ \E e \in {Nil} \cup Ids, f \in Formats, a \in ArgLists, s \in WrapfSites :
          Wrapf(e, f, a, s)
    \/ \E m \in Messages : NewMyErr(m)
    \/ \E m \in Messages : NewMyFormatterErr(m)
    \/ \E e \in Ids, m \in Messages : NewWrapError(e, m)
    \/ \E id \in Ids : Render(id)
    \/ \E id \in Ids : UnwrapCall(id)

Spec == Init /\ [][Next]_vars

TypeOK ==
    /\ Len(heap) <= MaxNodes
    /\ Len(hist) = Len(heap)

(* ----------------------- chains, as they were built -------------------- *)
WrapOps == {"Wrap", "Wrapf"}
IsWrapCall(id) == hist[id].op \in WrapOps

\* The errors a value was built over, outermost first, read from the calls
\* that built them: Chain follows every wrapping call, Built only those of
\* Wrap and Wrapf (it ends with the root the first Wrap was given).
RECURSIVE Chain(_)
Chain(id) ==
    IF hist[id].op \in WrapOps \cup {"wrapError"}
    THEN <<id>> \o Chain(hist[id].err) ELSE <<id>>

RECURSIVE Built(_)
Built(id) == IF IsWrapCall(id) THEN <<id>> \o Built(hist[id].err) ELSE <<id>>

Root(id) == Built(id)[Len(Built(id))]
Wrappers(id) == SubSeq(Built(id), 1, Len(Built(id)) - 1)

\* The error reached from id by k calls of errors.Unwrap.
RECURSIVE UnwrapN(_, _, _)
UnwrapN(h, id, k) ==
    IF k = 0 \/ id = Nil THEN id ELSE UnwrapN(h, Unwrap(h, id), k - 1)

\* The errors visited by repeated errors.Unwrap, at most fuel of them.
RECURSIVE Walk(_, _, _)
Walk(h, id, fuel) ==
    IF id = Nil \/ fuel = 0 THEN <<>>
    ELSE <<id>> \o Walk(h, Unwrap(h, id), fuel - 1)

\* errors.Is(err, target) for pointer targets, errors.As(err, &T) for a
\* target type T.
Is(h, err, target) ==
    \E i \in 1..Len(Walk(h, err, Len(h))) : Walk(h, err, Len(h))[i] = target
As(h, err, kind) ==
    \E i \in 1..Len(Walk(h, err, Len(h))) :
        h[Walk(h, err, Len(h))[i]].kind = kind

Range(seq) == { seq[i] : i \in 1..Len(seq) }

(* -------------------------------- C1 ----------------------------------- *)
\* C1: Wrap(nil, ...) and Wrapf(nil, ...) return nil whatever the messages,
\* format and arguments are, and the call allocates no error value (no
\* wrappedError is built, no stack is captured).
C1_WrapNilReturnsNil ==
    [][ (last'.op \in WrapOps /\ last'.err = Nil)
            => (last'.ret = Nil /\ heap' = heap /\ hist' = hist) ]_vars

C1_Witness ==
    /\ last.op = "Wrapf" /\ last.err = Nil /\ last.ret = Nil
    /\ Len(heap) >= 1

(* -------------------------------- C2 ----------------------------------- *)
\* C2: Unwrap of the result of Wrap(inner, m) or Wrapf(inner, f, args), for
\* a non-nil inner, is inner itself: the same identity, not another value
\* of the chain.
C2_UnwrapReturnsInner ==
    /\ (last.op \in WrapOps /\ last.err # Nil) =>
           /\ last.ret = Len(heap)
           /\ Unwrap(heap, last.ret) = last.err
    /\ (last.op = "Unwrap" /\ IsWrapCall(last.id)) =>
           last.ret = hist[last.id].err

C2_Witness ==
    /\ last.op = "Unwrap" /\ hist[last.id].op = "Wrap"
    /\ last.ret # Nil /\ IsWrapCall(last.ret)

(* -------------------------------- C3 ----------------------------------- *)
\* "mn: ...: m1: " followed by the root's Error(), from the messages of the
\* wrappers (outermost first).
RECURSIVE ColonJoined(_, _)
ColonJoined(ws, tail) ==
    IF ws = <<>> THEN tail
    ELSE heap[Head(ws)].msg \o <<":", " ">> \o ColonJoined(Tail(ws), tail)

ShortOf(id) == ColonJoined(Wrappers(id), Error(heap, Root(id)))

\* C3: for a chain built by n >= 1 Wrap/Wrapf calls over a root r, Error()
\* and the %s and %v renderings are exactly "mn: ...: m1: " followed by
\* r.Error(), whether or not r is a fmt.Formatter.
C3_ShortForm ==
    (last.op = "Render" /\ IsWrapCall(last.id)) =>
        /\ Error(heap, last.id) = ShortOf(last.id)
        /\ last.out["s"] = ShortOf(last.id)
        /\ last.out["v"] = ShortOf(last.id)

C3_Witness ==
    /\ last.op = "Render" /\ IsWrapCall(last.id)
    /\ Len(Wrappers(last.id)) = 2
    /\ heap[Root(last.id)].kind = "myFormatterErr"
    /\ last.out["v"] = <<"a", "\n", "b", ":", " ", "a", ":", " ", "X">>

(* -------------------------------- C4 ----------------------------------- *)
\* C4: repeated Unwrap from a chain e built by n >= 1 Wrap/Wrapf calls over
\* a root r that is not a wrappedError visits the n wrappers, outermost
\* first, then r, and ends; an identity match against r succeeds and a
\* match against a value or a type that is not in the chain fails.
C4_UnwrapWalk ==
    last.op = "Unwrap" =>
        LET e    == last.id
            walk == Walk(heap, e, Len(heap))
            n    == Len(Wrappers(e))
        IN  /\ UnwrapN(heap, e, Len(heap)) = Nil
            /\ walk[1] = e
            /\ last.ret = IF Len(walk) > 1 THEN walk[2] ELSE Nil
            /\ IsWrapCall(e) =>
                 /\ heap[Root(e)].kind # "wrappedError"
                 /\ Len(walk) >= n + 1
                 /\ SubSeq(walk, 1, n + 1) = Built(e)
                 /\ \A i \in 1..n : heap[walk[i]].kind = "wrappedError"
                 /\ walk = Chain(e)
                 /\ Unwrap(heap, Root(e)) = Nil => Len(walk) = n + 1
                 /\ Is(heap, e, Root(e))
                 /\ \A t \in Ids \ Range(Chain(e)) : ~Is(heap, e, t)
                 /\ \A k \in {"myErr", "myFormatterErr", "fundamental",
                              "wrapError"} :
                        (\A c \in Range(Chain(e)) : hist[c].op # k
                            /\ ~(k = "fundamental"
                                 /\ hist[c].op \in {"New", "Errorf"}))
                        => ~As(heap, e, k)

C4_Witness ==
    /\ last.op = "Unwrap" /\ IsWrapCall(last.id)
    /\ Len(Wrappers(last.id)) = 2
    /\ heap[Root(last.id)].kind = "myErr"
    /\ Walk(heap, last.id, Len(heap)) = <<3, 2, 1>>

(* -------------------------------- C5 ----------------------------------- *)
RECURSIVE Concat(_)
Concat(ss) == IF ss = <<>> THEN <<>> ELSE Head(ss) \o Concat(Tail(ss))

\* strings.Split(s, "\n"): the pieces of s between newlines.
RECURSIVE SplitLines(_, _)
SplitLines(s, cur) ==
    IF s = <<>> THEN <<cur>>
    ELSE IF Head(s) = "\n" THEN <<cur>> \o SplitLines(Tail(s), <<>>)
    ELSE SplitLines(Tail(s), Append(cur, Head(s)))

\* C5: the message of Wrap(inner, f1, ..., fk) is f1..fk with exactly one
\* newline between consecutive fragments, no leading or trailing newline,
\* the empty string when k = 0; its short form is that message, ": " and
\* the short form of inner.
C5_JoinedMessage ==
    (last.op = "Wrap" /\ last.err # Nil) =>
        LET frags == last.messages
            msg   == heap[last.ret].msg
            short == msg \o <<":", " ">> \o Text(Fprintf(heap, last.err, "s"))
        IN  /\ frags = <<>> => msg = <<>>
            /\ frags # <<>> =>
                  /\ SplitLines(msg, <<>>) = frags
                  /\ Len(msg) = Len(Concat(frags)) + Len(frags) - 1
                  /\ msg[1] # "\n" /\ msg[Len(msg)] # "\n"
            /\ Error(heap, last.ret) = short
            /\ Text(Fprintf(heap, last.ret, "s")) = short

C5_Witness ==
    /\ last.op = "Wrap" /\ last.err # Nil
    /\ last.messages = << <<"a">>, <<"b">> >>
    /\ heap[last.err].kind = "myErr"
    /\ Error(heap, last.ret)
         = <<"a", "\n", "b", ":", " ", "m", "y", "E", "r", "r">>

(* -------------------------------- C6 ----------------------------------- *)
Owners(segs) == [i \in 1..Len(segs) |-> segs[i].owner]

C8_CapturePolicy ==
    (last.op \in WrapOps /\ last.err # Nil) =>
        LET stack == heap[last.ret].stack
            made  == hist[last.err].op
            self  == made \in {"New", "Errorf", "Wrap", "Wrapf",
                               "myFormatterErr"}
        IN  /\ self = IsFormatter(heap, last.err)
            /\ self => stack = <<last.site[1]>>
            /\ ~self => stack = last.site
            /\ (Len(stack) = 1) <=> self
            /\ made \in {"New", "Errorf", "Wrap", "Wrapf"} => Len(stack) = 1

C8_Witness ==
    /\ last.op = "Wrapf" /\ last.err # Nil
    /\ hist[last.err].op = "Wrap"
    /\ heap[hist[last.err].err].kind = "myErr"
    /\ Len(heap[last.err].stack) = 3
    /\ Len(heap[last.ret].stack) = 1

(* ------------------------------ C9, C10 -------------------------------- *)
\* The inner error of wrapper id ends the chain and is not a fmt.Formatter.
PlainRootInner(id) ==
    /\ hist[hist[id].err].op \notin WrapOps \cup {"wrapError"}
    /\ hist[hist[id].err].op \notin {"New", "Errorf", "Wrap", "Wrapf",
                                     "myFormatterErr"}

InnerDetailed(id) == Text(Fprintf(heap, hist[id].err, "+v"))
OwnStack(id) == StackFormat(heap[id].stack)

FirstPos(segs, P(_)) ==
    LET hits == { i \in 1..Len(segs) : P(segs[i]) }
    IN  IF hits = {} THEN 0
        ELSE CHOOSE i \in hits : \A j \in hits : i <= j

\* C10: when the inner error ends the chain (its Unwrap is nil) and is not
\* a fmt.Formatter, the %+v rendering of a wrappedError is its message, a
\* newline, the inner error's rendering, its own stack trace and one
\* trailing newline; the inner's text precedes the wrapper's stack in that
\* case only.
C10_PlainRootBranch ==
    (last.op = "Render" /\ IsWrapCall(last.id)) =>
        LET id       == last.id
            inner    == hist[id].err
            stackPos == FirstPos(last.segs,
                                 LAMBDA s : s.owner = id /\ s.part = "stack")
            innerPos == FirstPos(last.segs, LAMBDA s : s.owner # id)
        IN  /\ PlainRootInner(id)
                <=> (Unwrap(heap, inner) = Nil /\ ~IsFormatter(heap, inner))
            /\ PlainRootInner(id) =>
                  /\ last.out["+v"]
                       = heap[id].msg \o <<"\n">> \o InnerDetailed(id)
                           \o OwnStack(id) \o <<"\n">>
                  /\ InnerDetailed(id) = Error(heap, inner)
            /\ last.out["+v"] = Text(last.segs)
            /\ stackPos > 0 /\ innerPos > 0
            /\ (innerPos < stackPos) <=> PlainRootInner(id)

C10_Witness ==
    /\ last.op = "Render" /\ hist[last.id].op = "Wrap"
    /\ heap[hist[last.id].err].kind = "myErr"
    /\ last.out["+v"] = <<"a", "\n", "m", "y", "E", "r", "r",
                          "\n", "fn1", "\n", "\t", "/src/file.go", ":", "1",
                          "\n", "fn9", "\n", "\t", "/src/file.go", ":", "9",
                          "\n">>
====
